---- MODULE Spec2Model ----
(***************************************************************************)
(* A model of raytracer.py: Vector/Point/Color algebra, Ray, Sphere,       *)
(* Scene (render, trace, find_nearest, color_at) and Image (set_pixel,     *)
(* write_ppm).                                                             *)
(*                                                                         *)
(* Floating-point numbers are modelled as binary fixed-point numbers with  *)
(* FracBits fractional bits: the integer n stands for n / Scale.  Every    *)
(* arithmetic operation rounds its exact result to the nearest             *)
(* representable number, so a result that is representable is exact.       *)
(* Python's None is the empty set and a present value v is {v}.            *)
(***************************************************************************)
EXTENDS Integers, Sequences, FiniteSets, TLC

VARIABLES camera, objects, lights, image, files, hist, call

vars == <<camera, objects, lights, image, files, hist, call>>

(***************************** bounds **************************************)
FracBits == 4
MaxCoord == 1
MaxDir == 2
MaxRadius == 2
MaxObjects == 2
MaxLights == 2
MaxDim == 3
MaxCalls == 3

(***************************** numbers *************************************)
Scale == 2^FracBits

F(n) == n * Scale

Max(x, y) == IF y > x THEN y ELSE x

Min(x, y) == IF y < x THEN y ELSE x

\* floor(n / d + 1/2) for d > 0
RoundDiv(n, d) == (2 * n + d) \div (2 * d)

Mul(x, y) == RoundDiv(x * y, Scale)

\* x / y for y # 0
Div(x, y) == IF y < 0 THEN RoundDiv(-(x * Scale), -y) ELSE RoundDiv(x * Scale, y)

RECURSIVE ISqrtBetween(_, _, _)
ISqrtBetween(n, lo, hi) ==
    IF lo >= hi THEN lo
    ELSE LET mid == (lo + hi + 1) \div 2
         IN IF mid * mid <= n THEN ISqrtBetween(n, mid, hi)
                              ELSE ISqrtBetween(n, lo, mid - 1)

\* the largest r with r * r <= n
ISqrt(n) == ISqrtBetween(n, 0, Min(n, 46340))

\* x ** 0.5 for x >= 0, rounded to nearest
Sqrt(x) == LET n == x * Scale
               r == ISqrt(n)
           IN IF n - r * r > r THEN r + 1 ELSE r

\* x ** k for an integer k >= 0, by repeated squaring
RECURSIVE Pow(_, _)
Pow(x, k) ==
    IF k = 0 THEN F(1)
    ELSE IF k % 2 = 0 THEN LET h == Pow(x, k \div 2) IN Mul(h, h)
    ELSE Mul(Pow(x, k - 1), x)

\* The({e(x) : x \in {v}}) is e(v) with v evaluated once
None == {}

Some(v) == {v}

The(o) == CHOOSE v \in o : TRUE

(***************************** Vector **************************************)
Vector(x, y, z) == <<x, y, z>>

Point(x, y, z) == Vector(x, y, z)

add(v, w) == <<v[1] + w[1], v[2] + w[2], v[3] + w[3]>>

sub(v, w) == <<v[1] - w[1], v[2] - w[2], v[3] - w[3]>>

\* Vector * scalar, scalar * Vector
scale(v, s) == <<Mul(v[1], s), Mul(v[2], s), Mul(v[3], s)>>

truediv(v, s) == <<Div(v[1], s), Div(v[2], s), Div(v[3], s)>>

dot(v, w) == Mul(v[1], w[1]) + Mul(v[2], w[2]) + Mul(v[3], w[3])

cross(v, w) == <<Mul(v[2], w[3]) - Mul(v[3], w[2]),
                 Mul(v[3], w[1]) - Mul(v[1], w[3]),
                 Mul(v[1], w[2]) - Mul(v[2], w[1])>>

squared_norm(v) == dot(v, v)

norm(v) == Sqrt(squared_norm(v))

\* defined for norm(v) # 0 (the source divides by zero otherwise)
normalize(v) == truediv(v, norm(v))

ORIGIN == Point(F(0), F(0), F(0))

(***************************** Color ***************************************)
Color(r, g, b) == <<r, g, b>>

color_add(c, d) == <<c[1] + d[1], c[2] + d[2], c[3] + d[3]>>

color_mul(c, s) == <<Mul(c[1], s), Mul(c[2], s), Mul(c[3], s)>>

HexDigits == <<"0", "1", "2", "3", "4", "5", "6", "7", "8", "9",
               "A", "B", "C", "D", "E", "F">>

HexDigit(ch) == (CHOOSE k \in 1..16 : HexDigits[k] = ch) - 1

\* int(hexcolor[lo:lo+2], 16), hexcolor[lo] being the model's h[lo + 1]
HexByte(h, lo) == 16 * HexDigit(h[lo + 1]) + HexDigit(h[lo + 2])

from_hex(h) == Color(Div(F(HexByte(h, 1)), F(255)),
                     Div(F(HexByte(h, 3)), F(255)),
                     Div(F(HexByte(h, 5)), F(255)))

RED == from_hex(<<"#", "F", "F", "0", "0", "0", "0">>)

GREEN == from_hex(<<"#", "0", "0", "F", "F", "0", "0">>)

BLUE == from_hex(<<"#", "0", "0", "0", "0", "F", "F">>)

BLACK == from_hex(<<"#", "0", "0", "0", "0", "0", "0">>)

WHITE == from_hex(<<"#", "F", "F", "F", "F", "F", "F">>)

(***************************** Ray *****************************************)
Ray(origin, direction) == [origin |-> origin, direction |-> direction]

point_at(ray, t) == add(ray.origin, scale(ray.direction, t))

bg_color(ray) ==
    LET t == normalize(ray.direction)[2]
    IN color_add(color_mul(WHITE, t), color_mul(BLACK, F(1) - t))

from_points(tail, head) == Ray(tail, sub(head, tail))

(***************************** Sphere **************************************)
Material(color, ambient, diffuse, specular, specular_k) ==
    [color |-> color, ambient |-> ambient, diffuse |-> diffuse,
     specular |-> specular, specular_k |-> specular_k]

Sphere(center, radius, material) ==
    [center |-> center, radius |-> radius, material |-> material]

Light(position, color) == [position |-> position, color |-> color]

\* the far root instead of the near one
intersect_far(sphere, ray) ==
    LET center_to_origin == sub(ray.origin, sphere.center)
        a == squared_norm(ray.direction)
        b == dot(scale(center_to_origin, F(2)), ray.direction)
        c == squared_norm(center_to_origin) - Mul(sphere.radius, sphere.radius)
        d == Mul(b, b) - Mul(Mul(F(4), a), c)
    IN IF d >= 0 /\ a # 0 /\ Div(-b + Sqrt(d), Mul(F(2), a)) >= 0
       THEN Some(Div(-b + Sqrt(d), Mul(F(2), a)))
       ELSE None

\* With a = 0 the direction is the zero vector, so b = 0 and d = 0, and the
\* quotient is 0.0 / 0 = nan, which is not >= 0: None.
intersect(sphere, ray) ==
    LET center_to_origin == sub(ray.origin, sphere.center)
        a == squared_norm(ray.direction)
        b == dot(scale(center_to_origin, F(2)), ray.direction)
        c == squared_norm(center_to_origin) - Mul(sphere.radius, sphere.radius)
        d == Mul(b, b) - Mul(Mul(F(4), a), c)
    IN IF d >= 0 /\ a # 0 /\ Div(-b - Sqrt(d), Mul(F(2), a)) >= 0
       THEN Some(Div(-b - Sqrt(d), Mul(F(2), a)))
       ELSE None

normal_at(sphere, point_on_sphere) == normalize(sub(point_on_sphere, sphere.center))

(***************************** Scene ***************************************)
\* the outcome of a call: a returned value or a raised exception
Return(v) == [ok |-> TRUE, val |-> v]

Raise(e) == [ok |-> FALSE, exc |-> e]

\* the state of find_nearest's scan before any object
ScanStart == [dist_min |-> None, object_hit |-> None]

\* one iteration of find_nearest's loop, a later object winning an exact tie
scan_step_last_wins(acc, _object, ray) ==
    The({IF dist # None /\ (acc.object_hit = None \/ The(dist) <= The(acc.dist_min))
         THEN [dist_min |-> dist, object_hit |-> Some(_object)]
         ELSE acc : dist \in {intersect(_object, ray)}})

\* one iteration of find_nearest's loop
scan_step(acc, _object, ray) ==
    The({IF dist # None /\ (acc.object_hit = None \/ The(dist) < The(acc.dist_min))
         THEN [dist_min |-> dist, object_hit |-> Some(_object)]
         ELSE acc : dist \in {intersect(_object, ray)}})

\* the loop of find_nearest over the first k objects
RECURSIVE scan(_, _, _)
scan(objs, ray, k) ==
    IF k = 0 THEN ScanStart
    ELSE The({scan_step(acc, objs[k], ray) : acc \in {scan(objs, ray, k - 1)}})

\* (point_hit, object_hit)
find_nearest(objs, ray) ==
    LET found == scan(objs, ray, Len(objs))
        point_hit == IF found.object_hit # None
                     THEN Some(point_at(ray, The(found.dist_min)))
                     ELSE None
    IN <<point_hit, found.object_hit>>

\* Diffuse shading (Lambert)
diffuse_term(material, normal, to_light) ==
    color_mul(color_mul(material.color, material.diffuse),
              Max(F(0), dot(normal, to_light.direction)))

\* Specular shading (Blinn-Phong).  A zero sum of the two directions
\* normalizes to nan, and max(0, nan) is 0.
specular_term(light, material, normal, to_light, to_cam) ==
    LET sum == add(to_light.direction, to_cam)
        cosine == IF norm(sum) = 0 THEN F(0)
                  ELSE Max(F(0), dot(normal, normalize(sum)))
    IN color_mul(color_mul(light.color, material.specular),
                 Pow(cosine, material.specular_k))

\* one iteration of color_at's loop: color is assigned the diffuse term, the
\* value it held before the iteration being dropped, then += the specular term
shade_step(color, light, material, normal, point_hit, to_cam) ==
    LET to_light == from_points(point_hit, light.position)
        assigned == diffuse_term(material, normal, to_light)
    IN Some(color_add(assigned,
                      specular_term(light, material, normal, to_light, to_cam)))

\* color_at's loop over the first k lights; color is unbound (None) before it
RECURSIVE shade(_, _, _, _, _, _)
shade(lts, k, material, normal, point_hit, to_cam) ==
    IF k = 0 THEN None
    ELSE shade_step(shade(lts, k - 1, material, normal, point_hit, to_cam),
                    lts[k], material, normal, point_hit, to_cam)

\* color_at(ray, point_hit, object_hit) of a scene with camera cam and lights
\* lts.  A camera of None fails at camera - point_hit; with no light the
\* returned name color is unbound.
color_at(cam, lts, ray, point_hit, object_hit) ==
    IF cam = None THEN Raise("TypeError")
    ELSE LET normal == normal_at(object_hit, point_hit)
             material == object_hit.material
             to_cam == sub(The(cam), point_hit)
             color == shade(lts, Len(lts), material, normal, point_hit, to_cam)
         IN IF color = None THEN Raise("UnboundLocalError") ELSE Return(The(color))

trace(cam, objs, lts, ray) ==
    LET nearest == find_nearest(objs, ray)
        point_hit == nearest[1]
        object_hit == nearest[2]
    IN IF object_hit # None
       THEN color_at(cam, lts, ray, The(point_hit), The(object_hit))
       ELSE Return(bg_color(ray))

(***************************** Image ***************************************)
\* pixels[y][x] of the source is pixels[y + 1][x + 1] here; None marks a cell
\* that holds no color
Image(width, height) ==
    [width |-> width, height |-> height,
     pixels |-> [y \in 1..height |-> [x \in 1..width |-> None]]]

\* the position a Python list of length n gives index k: -n..-1 count from
\* the end, and None stands for IndexError
ListIndex(k, n) ==
    IF 0 <= k /\ k < n THEN Some(k + 1)
    ELSE IF -n <= k /\ k < 0 THEN Some(k + n + 1)
    ELSE None

\* self.pixels[y][x] = color: the image after the call, or IndexError
set_pixel(img, x, y, color) ==
    LET row == ListIndex(y, Len(img.pixels))
    IN IF row = None THEN Raise("IndexError")
       ELSE LET col == ListIndex(x, Len(img.pixels[The(row)]))
            IN IF col = None THEN Raise("IndexError")
               ELSE Return([img EXCEPT !.pixels[The(row)][The(col)] = Some(color)])

\* round(q) for q = n / d, d > 0: to the nearest integer, a tie to the even one
Round(n, d) ==
    LET q == n \div d
        r == n % d
    IN IF 2 * r < d THEN q
       ELSE IF 2 * r > d THEN q + 1
       ELSE IF q % 2 = 0 THEN q ELSE q + 1

to_byte(color) ==
    [k \in 1..3 |-> Max(Min(Round(color[k] * 255, Scale), 255), 0)]

\* str.endswith
endswith(str, suffix) ==
    /\ Len(str) >= Len(suffix)
    /\ SubSeq(str, Len(str) - Len(suffix) + 1, Len(str)) = suffix

\* the suffix may sit anywhere in the string
contains(str, suffix) ==
    \E k \in 1..Len(str) :
        /\ k + Len(suffix) - 1 <= Len(str)
        /\ SubSeq(str, k, k + Len(suffix) - 1) = suffix

PpmSuffix == <<".", "p", "p", "m">>

NewLine == <<>>

\* what the loops of write_ppm write after the header: '{r:3} {g:3} {b:3}\t'
\* for each pixel as its byte triple, '\n' after each row as NewLine; the
\* writing stops at the first cell that holds None (to_byte fails on it)
PpmPixel(before, cell) ==
    IF ~before.ok \/ cell = None THEN [ok |-> FALSE, text |-> before.text]
    ELSE [ok |-> TRUE, text |-> Append(before.text, to_byte(The(cell)))]

RECURSIVE PpmRow(_, _)
PpmRow(row, k) ==
    IF k = 0 THEN [ok |-> TRUE, text |-> <<>>]
    ELSE The({PpmPixel(before, row[k]) : before \in {PpmRow(row, k - 1)}})

PpmRowEnd(before, row) ==
    IF ~before.ok THEN before
    ELSE IF ~row.ok THEN [ok |-> FALSE, text |-> before.text \o row.text]
    ELSE [ok |-> TRUE, text |-> (before.text \o row.text) \o <<NewLine>>]

RECURSIVE PpmRows(_, _)
PpmRows(pixels, k) ==
    IF k = 0 THEN [ok |-> TRUE, text |-> <<>>]
    ELSE The({PpmRowEnd(before, row) : before \in {PpmRows(pixels, k - 1)},
                                       row \in {PpmRow(pixels[k], Len(pixels[k]))}})

\* the file system maps a path to the content of the file at that path
HasFile(fs, path) == path \in DOMAIN fs

PutFile(fs, path, content) ==
    [q \in DOMAIN fs \cup {path} |-> IF q = path THEN content ELSE fs[q]]

\* get_path(): the path given on the command line
get_path(argv) == argv

\* write_ppm accepting any path that contains '.ppm'
write_ppm_contains(img, ppm_file_path, argv, fs) ==
    LET path == IF ppm_file_path = None THEN get_path(argv) ELSE The(ppm_file_path)
    IN IF contains(path, PpmSuffix)
       THEN LET body == PpmRows(img.pixels, Len(img.pixels))
                content == [header |-> <<"P3", img.width, img.height, 255>>,
                            body |-> body.text]
            IN [files |-> PutFile(fs, path, content),
                out |-> IF body.ok THEN Return(None) ELSE Raise("AttributeError")]
       ELSE [files |-> fs, out |-> Raise("SyntaxError")]

\* write_ppm(ppm_file_path) of img, with the command line argv and the file
\* system fs: the file system after the call and the call's outcome.
\* open(path, 'w') creates or truncates the file before anything is written.
write_ppm(img, ppm_file_path, argv, fs) ==
    LET path == IF ppm_file_path = None THEN get_path(argv) ELSE The(ppm_file_path)
    IN IF endswith(path, PpmSuffix)
       THEN LET body == PpmRows(img.pixels, Len(img.pixels))
                content == [header |-> <<"P3", img.width, img.height, 255>>,
                            body |-> body.text]
            IN [files |-> PutFile(fs, path, content),
                out |-> IF body.ok THEN Return(None) ELSE Raise("AttributeError")]
       ELSE [files |-> fs, out |-> Raise("SyntaxError")]

(***************************** Scene.render ********************************)
render_stored(before, set, i, j) ==
    IF ~set.ok THEN [before EXCEPT !.exc = set.exc]
    ELSE [exc |-> "", image |-> set.val, writes |-> Append(before.writes, <<i, j>>)]

\* image.set_pixel(i, j, self.trace(ray)), given trace's outcome
render_store(before, color, i, j) ==
    IF ~color.ok THEN [before EXCEPT !.exc = color.exc]
    ELSE The({render_stored(before, set, i, j) :
                 set \in {set_pixel(before.image, i, j, color.val)}})

\* one iteration of render's loops, the n-th, for pixel (i, j) with
\* n = j * width + i + 1; before and the result are the loop's state: the
\* exception that ended it ("" for none), the image so far and the (i, j)
\* that set_pixel was called with
render_step(before, cam, objs, lts, width, height, n) ==
    LET ratio == Div(F(width), F(height))
        x0 == F(-1)
        x1 == F(1)
        x_step == Div(x1 - x0, F(width - 1))
        y0 == Div(F(-1), ratio)
        y1 == Div(F(1), ratio)
        y_step == Div(y1 - y0, F(height - 1))
        j == (n - 1) \div width
        i == (n - 1) % width
        y == y0 + Mul(F(j), y_step)
        x == x0 + Mul(F(i), x_step)
    IN IF before.exc # "" THEN before
       ELSE IF cam = None THEN [before EXCEPT !.exc = "TypeError"]
       ELSE LET ray == from_points(The(cam), Point(x, y, F(0)))
            IN The({render_store(before, color, i, j) :
                       color \in {trace(cam, objs, lts, ray)}})

\* render's loops after n iterations
RECURSIVE render_loop(_, _, _, _, _, _)
render_loop(cam, objs, lts, width, height, n) ==
    IF n = 0 THEN [exc |-> "", image |-> Image(width, height), writes |-> <<>>]
    ELSE The({render_step(before, cam, objs, lts, width, height, n) :
                 before \in {render_loop(cam, objs, lts, width, height, n - 1)}})

\* render(width, height) for width, height >= 1: width - 1 = 0 or
\* height - 1 = 0 divides by zero before the image is made
render(cam, objs, lts, width, height) ==
    IF width - 1 = 0 \/ height - 1 = 0
    THEN [exc |-> "ZeroDivisionError", image |-> None, writes |-> <<>>]
    ELSE LET done == render_loop(cam, objs, lts, width, height, width * height)
         IN [exc |-> done.exc, image |-> Some(done.image), writes |-> done.writes]

(***************************** inputs **************************************)
Grid(m) == {Vector(F(x), F(y), F(z)) : x \in -m..m, y \in -m..m, z \in -m..m}

Origins == Grid(MaxCoord)

Directions == Grid(MaxDir)

Centers == {Point(F(0), F(0), F(0)), Point(F(0), F(0), F(2)), Point(F(1), F(0), F(1))}

Plain(color) == Material(color, Div(F(5), F(100)), F(1), F(1), 50)

Spheres == {Sphere(c, F(r), Plain(RED)) : c \in Centers, r \in 1..MaxRadius}

\* the spheres of the scenes: two that differ in their material alone, one
\* that shares the surface point (0,0,-1) with them, one behind them
SceneSpheres == {Sphere(Point(F(0), F(0), F(0)), F(1), Plain(RED)),
                 Sphere(Point(F(0), F(0), F(0)), F(1), Plain(GREEN)),
                 Sphere(Point(F(0), F(0), F(1)), F(2), Plain(BLUE)),
                 Sphere(Point(F(0), F(0), F(2)), F(1), Plain(WHITE))}

SceneLights == {Light(Point(F(0), F(0), F(-3)), WHITE),
                Light(Point(F(0), F(3), F(-5)), WHITE),
                Light(Point(F(0), F(0), F(-2)), RED)}

Cameras == {Point(F(0), F(0), F(-3)), Point(F(0), F(1), F(-2))}

\* rays along and across the z axis, on which the scene's spheres lie
SceneRays == {Ray(o, d) : o \in {Point(F(0), F(0), F(-3)), Point(F(0), F(0), F(-1)),
                                 Point(F(1), F(0), F(-3))},
                          d \in {Vector(F(0), F(0), F(1)), Vector(F(0), F(0), F(2)),
                                 Vector(F(0), F(0), F(-1)), Vector(F(0), F(1), F(0))}}

\* the non-empty sequences of at most n elements of S
RECURSIVE SeqsUpTo(_, _)
SeqsUpTo(S, n) ==
    IF n = 0 THEN {}
    ELSE {<<x>> : x \in S}
         \cup {Append(q, x) : q \in SeqsUpTo(S, n - 1), x \in S}

Rays == {Ray(o, d) : o \in Origins, d \in Directions}

(***************************** specifications ******************************)
Idle == [op |-> "none"]

Init ==
    /\ camera = None
    /\ objects = <<>>
    /\ lights = <<>>
    /\ image = None
    /\ files = <<>>
    /\ hist = <<>>
    /\ call = Idle

Called(op) == [op |-> op]

set_camera(c) ==
    /\ camera' = Some(c)
    /\ call' = Called("set_camera")
    /\ hist' = <<>>
    /\ UNCHANGED <<objects, lights, image, files>>

add_objects(os) ==
    /\ Len(objects) + Len(os) <= MaxObjects
    /\ objects' = objects \o os
    /\ call' = Called("add_objects")
    /\ hist' = <<>>
    /\ UNCHANGED <<camera, lights, image, files>>

add_lights(ls) ==
    /\ Len(lights) + Len(ls) <= MaxLights
    /\ lights' = lights \o ls
    /\ call' = Called("add_lights")
    /\ hist' = <<>>
    /\ UNCHANGED <<camera, objects, image, files>>

SetCamera == \E c \in Cameras : set_camera(c)

AddObjects == \E os \in SeqsUpTo(SceneSpheres, MaxObjects) : add_objects(os)

AddLights == \E ls \in SeqsUpTo(SceneLights, MaxLights) : add_lights(ls)

\* scene.find_nearest(ray), for any ray of SceneRays
FindNearest ==
    /\ call.op # "find_nearest"
    /\ \E r \in SceneRays :
          call' = [op |-> "find_nearest", ray |-> r, ret |-> find_nearest(objects, r)]
    /\ UNCHANGED <<camera, objects, lights, image, files, hist>>

NextNearest == AddObjects \/ FindNearest

SpecNearest == Init /\ [][NextNearest]_vars

\* scene.color_at(ray, point_hit, object_hit), for the point where a ray of
\* SceneRays hits a sphere
ColorAt ==
    /\ call.op # "color_at"
    /\ \E r \in SceneRays, s \in SceneSpheres :
          /\ intersect(s, r) # None
          /\ LET p == point_at(r, The(intersect(s, r)))
             IN call' = [op |-> "color_at", ray |-> r, point_hit |-> p,
                         object_hit |-> s, out |-> color_at(camera, lights, r, p, s)]
    /\ UNCHANGED <<camera, objects, lights, image, files, hist>>

NextShade == SetCamera \/ AddLights \/ ColorAt

SpecShade == Init /\ [][NextShade]_vars

SceneNow == <<camera, objects, lights>>

\* the same, render popping the first light of the scene
render_call_popping(width, height) ==
    \E r \in {render(camera, objects, lights, width, height)} :
       /\ call' = [op |-> "render", width |-> width, height |-> height,
                   scene |-> SceneNow, exc |-> r.exc, image |-> r.image,
                   writes |-> r.writes]
       /\ hist' = IF r.exc # "" THEN <<>>
                  ELSE IF /\ hist # <<>>
                          /\ hist[Len(hist)].width = width
                          /\ hist[Len(hist)].height = height
                       THEN <<hist[Len(hist)], The(r.image)>>
                       ELSE <<The(r.image)>>
       /\ lights' = IF lights = <<>> THEN lights ELSE Tail(lights)
       /\ UNCHANGED <<camera, objects, image, files>>

\* scene.render(width, height); hist holds the images (at most the last two)
\* that successive calls of render with the same arguments returned with no
\* other call in between
render_call(width, height) ==
    \E r \in {render(camera, objects, lights, width, height)} :
       /\ call' = [op |-> "render", width |-> width, height |-> height,
                   scene |-> SceneNow, exc |-> r.exc, image |-> r.image,
                   writes |-> r.writes]
       /\ hist' = IF r.exc # "" THEN <<>>
                  ELSE IF /\ hist # <<>>
                          /\ hist[Len(hist)].width = width
                          /\ hist[Len(hist)].height = height
                       THEN <<hist[Len(hist)], The(r.image)>>
                       ELSE <<The(r.image)>>
       /\ UNCHANGED <<camera, objects, lights, image, files>>

\* A render right after a render repeats its arguments: with other arguments
\* it reaches the state the same call reaches from the state before the
\* first render, hist being reset and the scene unchanged.
Render ==
    \E width \in 1..MaxDim, height \in 1..MaxDim :
        /\ call.op = "render" => (width = call.width /\ height = call.height)
        /\ render_call(width, height)

\* the scenes that are rendered: a small and a large sphere, one kind of light
RenderSpheres == {Sphere(Point(F(0), F(0), F(0)), F(1), Plain(RED)),
                  Sphere(Point(F(0), F(0), F(1)), F(2), Plain(BLUE))}

RenderLights == {Light(Point(F(0), F(5), F(-5)), WHITE)}

AddRenderObjects == \E os \in SeqsUpTo(RenderSpheres, MaxObjects) : add_objects(os)

AddRenderLights == \E ls \in SeqsUpTo(RenderLights, MaxLights) : add_lights(ls)

Next == SetCamera \/ AddRenderObjects \/ AddRenderLights \/ Render

Spec == Init /\ [][Next]_vars

\* the images made: Image(width, height) for these (width, height)
ImageSizes == {<<1, 1>>, <<2, 1>>, <<2, 2>>}

PixelColors == {WHITE, Color(Div(F(3), F(2)), Div(F(-1), F(5)), Div(F(1), F(2)))}

\* the indices tried on a list of length n: its ends, and just past them
Indices(n) == {-n - 1, -1, 0, n - 1, n}

Paths == {<<"a", ".", "p", "p", "m">>,
          <<".", "p", "p", "m">>,
          <<"a", ".", "p", "n", "g">>,
          <<"p", "p", "m">>,
          <<"a", ".", "p", "p", "m", ".", "x">>,
          <<"a", ".", "P", "P", "M">>,
          <<>>}

\* call.n counts the calls made on the image
InitImage ==
    /\ Init!1 /\ Init!2 /\ Init!3 /\ Init!5 /\ Init!6
    /\ \E size \in ImageSizes : image = Some(Image(size[1], size[2]))
    /\ call = [op |-> "Image", n |-> 0]

SetPixel ==
    /\ call.n < MaxCalls
    /\ \E x \in Indices(The(image).width), y \in Indices(The(image).height),
          color \in PixelColors :
          \E r \in {set_pixel(The(image), x, y, color)} :
             /\ call' = [op |-> "set_pixel", x |-> x, y |-> y, color |-> color,
                         before |-> The(image), ok |-> r.ok, n |-> call.n + 1]
             /\ image' = IF r.ok THEN Some(r.val) ELSE image
    /\ UNCHANGED <<camera, objects, lights, files, hist>>

\* image.write_ppm(ppm_file_path), the path given or None and then taken
\* from the command line
WritePpm ==
    /\ call.n < MaxCalls
    /\ \E given \in BOOLEAN, path \in Paths :
          \E r \in {write_ppm(The(image), IF given THEN Some(path) ELSE None,
                              path, files)} :
             /\ call' = [op |-> "write_ppm", path |-> path, given |-> given,
                         files |-> files, image |-> The(image), out |-> r.out,
                         n |-> call.n + 1]
             /\ files' = r.files
    /\ UNCHANGED <<camera, objects, lights, image, hist>>

NextImage == SetPixel \/ WritePpm

SpecImage == InitImage /\ [][NextImage]_vars

\* the arguments of a call of a pure function, drawn by the initial state
InitRay ==
    /\ Init!1 /\ Init!2 /\ Init!3 /\ Init!4 /\ Init!5 /\ Init!6
    /\ \E s \in Spheres, r \in Rays : call = [op |-> "args", sphere |-> s, ray |-> r]

Intersect ==
    /\ call.op = "args"
    /\ call' = [op |-> "intersect", sphere |-> call.sphere, ray |-> call.ray,
                ret |-> intersect(call.sphere, call.ray)]
    /\ UNCHANGED <<camera, objects, lights, image, files, hist>>

\* bg_color normalizes the direction: the zero direction is left out
BgColor ==
    /\ call.op = "args"
    /\ norm(call.ray.direction) # 0
    /\ call' = [op |-> "bg_color", ray |-> call.ray, ret |-> bg_color(call.ray)]
    /\ UNCHANGED <<camera, objects, lights, image, files, hist>>

NextRay == Intersect \/ BgColor

SpecRay == InitRay /\ [][NextRay]_vars

(***************************** claims on SpecRay ***************************)
IsCall(op) == call.op = op

\* the quantities the claims on intersect are stated in
CallA == squared_norm(call.ray.direction)

CallB == Mul(F(2), dot(sub(call.ray.origin, call.sphere.center), call.ray.direction))

CallC == squared_norm(sub(call.ray.origin, call.sphere.center))
         - Mul(call.sphere.radius, call.sphere.radius)

CallDisc == Mul(CallB, CallB) - Mul(F(4), Mul(CallA, CallC))

CallNearRoot == Div(-CallB - Sqrt(CallDisc), Mul(F(2), CallA))

\* the ray starts strictly inside / strictly outside the sphere
OriginInside == CallC < 0

OriginOutside == CallC > 0

CallToCenter == sub(call.sphere.center, call.ray.origin)

\* the direction is a positive multiple of the vector from the origin to the center
AimedAtCenter ==
    /\ cross(call.ray.direction, CallToCenter) = <<0, 0, 0>>
    /\ dot(call.ray.direction, CallToCenter) > 0

\* the norm of v is a representable number, so norm(v) is exact
ExactNorm(v) == Mul(norm(v), norm(v)) = squared_norm(v)

\* C4: intersect returns None when the discriminant b^2 - 4ac is negative,
\* None when the smaller root (-b - sqrt(disc)) / (2a) is negative, and that
\* smaller root otherwise; so a ray that starts strictly inside the sphere
\* gets None (for a direction that is not the zero vector).
C4_NearRootOnly ==
    (IsCall("intersect") /\ CallA # 0) =>
        /\ CallDisc < 0 => call.ret = None
        /\ (CallDisc >= 0 /\ CallNearRoot < 0) => call.ret = None
        /\ (CallDisc >= 0 /\ CallNearRoot >= 0) => call.ret = Some(CallNearRoot)
        /\ OriginInside => call.ret = None

\* a ray from strictly inside a sphere got None although its far root is ahead
C4_Witness ==
    /\ IsCall("intersect")
    /\ CallA # 0
    /\ OriginInside
    /\ Div(-CallB + Sqrt(CallDisc), Mul(F(2), CallA)) > 0
    /\ call.ret = None

\* C8: bg_color returns WHITE for the direction (0,1,0) and BLACK for the
\* direction (0,-1,0).
C8_UpWhiteDownBlack ==
    IsCall("bg_color") =>
        /\ call.ray.direction = Vector(F(0), F(1), F(0)) => call.ret = WHITE
        /\ call.ray.direction = Vector(F(0), F(-1), F(0)) => call.ret = BLACK

\* C10 as stated: a ray from outside aimed at the center gets
\* t = distance_to_center - radius, whatever the length of its direction
\* (checked where the distance is exactly representable).
C10_DistanceMinusRadius ==
    (IsCall("intersect") /\ OriginOutside /\ AimedAtCenter /\ ExactNorm(CallToCenter)) =>
        call.ret = Some(norm(CallToCenter) - call.sphere.radius)

\* C10 as amended: a ray from outside aimed at the center gets
\* t = (distance_to_center - radius) / |direction|, the ray parameter in units
\* of the direction's length (checked where the distance and the length are
\* exactly representable).
C10_ParameterInDirectionUnits ==
    (/\ IsCall("intersect") /\ OriginOutside /\ AimedAtCenter
     /\ ExactNorm(CallToCenter) /\ ExactNorm(call.ray.direction)) =>
        call.ret = Some(Div(norm(CallToCenter) - call.sphere.radius,
                            norm(call.ray.direction)))

\* a ray from outside aimed at the center with a direction of length 2
C10_Witness ==
    /\ IsCall("intersect") /\ OriginOutside /\ AimedAtCenter
    /\ ExactNorm(CallToCenter)
    /\ norm(call.ray.direction) = F(2)
    /\ call.ret = Some(Div(norm(CallToCenter) - call.sphere.radius, F(2)))

(***************************** claims on SpecNearest ************************)
\* the indices of the objects the call's ray intersects
CallHits == {k \in 1..Len(objects) : intersect(objects[k], call.ray) # None}

CallT(k) == The(intersect(objects[k], call.ray))

\* the first inserted among the objects with the least intersection parameter
CallFirstNearest ==
    CHOOSE k \in CallHits :
        /\ \A m \in CallHits : CallT(k) <= CallT(m)
        /\ \A m \in CallHits : CallT(m) = CallT(k) => k <= m

\* C3: find_nearest returns (None, None) exactly when no object intersects
\* the ray; otherwise the object with the least t (t = 0 included), the first
\* inserted among those that share it, and the point ray.point_at(t).
C3_FirstNearest ==
    IsCall("find_nearest") =>
        /\ (call.ret = <<None, None>>) <=> (CallHits = {})
        /\ CallHits # {} =>
              /\ call.ret[2] = Some(objects[CallFirstNearest])
              /\ call.ret[1] = Some(point_at(call.ray, CallT(CallFirstNearest)))

\* several distinct objects share the least parameter, which is 0, and the
\* first inserted of them is returned
C3_Witness ==
    /\ IsCall("find_nearest")
    /\ CallHits # {}
    /\ CallT(CallFirstNearest) = 0
    /\ \E m \in CallHits : /\ m > CallFirstNearest
                           /\ CallT(m) = 0
                           /\ objects[m] # objects[CallFirstNearest]
    /\ call.ret[2] = Some(objects[CallFirstNearest])

(***************************** claims on SpecShade **************************)
CallNormal == normal_at(call.object_hit, call.point_hit)

CallToLight(k) == from_points(call.point_hit, lights[k].position)

\* the (diffuse + specular) contribution of the k-th light
CallLightTerm(k) ==
    color_add(diffuse_term(call.object_hit.material, CallNormal, CallToLight(k)),
              specular_term(lights[k], call.object_hit.material, CallNormal,
                            CallToLight(k), sub(The(camera), call.point_hit)))

RECURSIVE CallLightSum(_)
CallLightSum(k) ==
    IF k = 0 THEN Color(F(0), F(0), F(0))
    ELSE color_add(CallLightSum(k - 1), CallLightTerm(k))

\* C1: color_at returns the sum over every light of the scene of the
\* light's (diffuse + specular) contribution, for no, one or several lights.
C1_SumOverLights ==
    (IsCall("color_at") /\ camera # None) =>
        /\ call.out.ok
        /\ call.out.val = CallLightSum(Len(lights))

\* the diffuse term as C9 states it, with the direction to the light normalized
diffuse_term_unit(material, normal, to_light) ==
    color_mul(color_mul(material.color, material.diffuse),
              Max(F(0), dot(normal, normalize(to_light.direction))))

CallDiffuse(k) == diffuse_term(call.object_hit.material, CallNormal, CallToLight(k))

\* C9: the diffuse term of a light is material.color * material.diffuse *
\* max(0, normal . u) for the unit direction u to the light (checked where
\* that direction's length is exactly representable), so that a light twice
\* as far in the same direction has the same diffuse term.
C9_DiffuseUnitDirection ==
    (IsCall("color_at") /\ camera # None) =>
        /\ \A k \in 1..Len(lights) :
              ExactNorm(CallToLight(k).direction) =>
                 CallDiffuse(k) = diffuse_term_unit(call.object_hit.material,
                                                    CallNormal, CallToLight(k))
        /\ \A k, m \in 1..Len(lights) :
              CallToLight(m).direction = scale(CallToLight(k).direction, F(2)) =>
                 CallDiffuse(m) = CallDiffuse(k)

(***************************** claims on Spec *******************************)
\* how many times render called set_pixel(i, j, ...)
CallWrites(i, j) == Cardinality({k \in 1..Len(call.writes) : call.writes[k] = <<i, j>>})

\* C2: for every width >= 1 and height >= 1, render on a scene with a camera
\* completes and returns an image each cell of which set_pixel wrote exactly
\* once, none being None.
C2_RenderFillsImage ==
    (IsCall("render") /\ camera # None) =>
        /\ call.exc = ""
        /\ call.image # None
        /\ \A i \in 0..call.width - 1, j \in 0..call.height - 1 :
              /\ CallWrites(i, j) = 1
              /\ The(call.image).pixels[j + 1][i + 1] # None

CallOutOfBounds ==
    \/ call.x < 0 \/ call.x >= call.before.width
    \/ call.y < 0 \/ call.y >= call.before.height

\* C5: set_pixel(x, y, color) with x or y outside 0 <= x < width,
\* 0 <= y < height raises an error and leaves every cell unchanged.
C5_OutOfBoundsFaults ==
    (IsCall("set_pixel") /\ CallOutOfBounds) =>
        /\ ~call.ok
        /\ image = Some(call.before)

\* the last four characters of the call's path are '.ppm'
CallPathIsPpm ==
    /\ Len(call.path) >= 4
    /\ call.path[Len(call.path) - 3] = "."
    /\ call.path[Len(call.path) - 2] = "p"
    /\ call.path[Len(call.path) - 1] = "p"
    /\ call.path[Len(call.path)] = "m"

\* C6: write_ppm writes the file at the path only when the path ends in
\* '.ppm'; for any other path it raises an error and creates and modifies no
\* file; the image's pixels are unchanged either way.
C6_OnlyPpmPaths ==
    IsCall("write_ppm") =>
        /\ CallPathIsPpm =>
              /\ HasFile(files, call.path)
              /\ \A q \in DOMAIN call.files : q # call.path =>
                    (HasFile(files, q) /\ files[q] = call.files[q])
        /\ ~CallPathIsPpm =>
              /\ call.out = Raise("SyntaxError")
              /\ files = call.files
        /\ image = Some(call.image)

\* a path that holds '.ppm' but does not end in it was refused, and the file
\* written before it is as it was
C6_Witness ==
    /\ IsCall("write_ppm")
    /\ contains(call.path, PpmSuffix)
    /\ ~CallPathIsPpm
    /\ call.out = Raise("SyntaxError")
    /\ DOMAIN call.files # {}
    /\ files = call.files

====
